---- MODULE Spec2Model ----
(***************************************************************************)
(* aw-notify: the threshold-alert engine of src/aw_notify/main.py.         *)
(*                                                                         *)
(* One CategoryAlert object, the TTL cache in front of get_time, the wall  *)
(* clock, the time-tracking query service and the notification sink.      *)
(* Durations and instants are whole minutes; instants count from the       *)
(* epoch 1970-01-01T00:00Z, which is a UTC midnight.                       *)
(*                                                                         *)
(* The operations update(), check(), status() and checkin() are called in  *)
(* any order and the clock moves between them; the order of the loop of    *)
(* threshold_alerts (update, check, status, sleep) is one of these orders. *)
(* Every operation reads the clock once: the repeated datetime.now() calls *)
(* of one operation return the same instant.                               *)
(*                                                                         *)
(* Four specifications share the variables:                                *)
(*   Spec      the operations of one alert called in any order;            *)
(*   LoopSpec  start(): the loop of threshold_alerts and checkin_thread;   *)
(*   RaceSpec  the statements of _cache_ttl interleaved by two threads;    *)
(*   LiveSpec  the service running without end, with fairness.             *)
(***************************************************************************)
EXTENDS Integers, Sequences, FiniteSets, TLC

\* ------------------------------------------------------------------------
\* Program constants (minutes)
\* ------------------------------------------------------------------------
time_offset == 240

ttl == 1

DayLen == 1440

Epoch == 0

td15min == 15

td30min == 30

td1h == 60

td2h == 120

td4h == 240

Category == "Work"

\* ------------------------------------------------------------------------
\* Bounds of the model
\* ------------------------------------------------------------------------
\* number of clock advances in one behaviour
MaxAdvance == 3

\* the day on which the behaviours start, counted from the epoch
StartDay == 20000

\* the clock reading at the start: 13:50 UTC
StartTimes == {StartDay * DayLen + 830}

\* steps by which the clock advances between two operations
Deltas == {1, 15, 600}

\* durations the query service reports for the category
Durations == {5, 20, 35, 45}

\* threshold lists an alert is constructed with
ThresholdLists ==
    { << >>,
      <<td1h>>,
      <<td30min, td15min, td15min>>,
      <<td15min, td30min, td1h>>,
      <<td15min, td30min, td1h, td2h, td4h>> }

VARIABLES
    now,            \* wall clock, datetime.now(timezone.utc)
    advances,       \* number of clock advances so far
    thresholds,     \* CategoryAlert.thresholds
    max_triggered,  \* CategoryAlert.max_triggered
    time_spent,     \* CategoryAlert.time_spent
    last_check,     \* CategoryAlert.last_check
    cache,          \* _cache_ttl.cache of get_time
    last_update,    \* _cache_ttl.last_update of get_time
    notified,       \* thresholds handed to notify() by check(), in order
    ev,             \* what the most recent operation did
    pc,             \* where the main thread is in start() / threshold_alerts()
    last_status,    \* alert.last_status, set by the loop of threshold_alerts
    hpc,            \* where checkin_thread of hourly() is
    wake,           \* next_hour, the instant checkin_thread sleeps until
    calls,          \* per thread: where it is inside _cache_ttl, and its locals
    hist            \* when the query that produced the cached value began

vars == << now, advances, thresholds, max_triggered, time_spent, last_check,
           cache, last_update, notified, ev >>

vars_but_ev == << now, advances, thresholds, max_triggered, time_spent,
                  last_check, cache, last_update, notified >>

\* the state of the two loops
lvars == << pc, last_status, hpc, wake >>

\* the state of the calls of get_time that are under way
rvars == << calls, hist >>

allvars == << vars, lvars, rvars >>

\* ------------------------------------------------------------------------
\* Values of get_time: None, or a dict from category to duration
\* (a dict is the set of its items; only the alert's category is kept)
\* ------------------------------------------------------------------------
NoneVal == [isdict |-> FALSE, items |-> {}]

Dict(items) == [isdict |-> TRUE, items |-> items]

\* the dicts the query can produce: the category absent, or present
QueryDicts == {Dict({})} \cup {Dict({<<Category, d>>}) : d \in Durations}

\* outcome of one run of the undecorated get_time: it raises, or returns a dict
QueryOutcomes == {[raises |-> TRUE, val |-> NoneVal]}
                 \cup {[raises |-> FALSE, val |-> v] : v \in QueryDicts}

\* v[key] raises TypeError on None and KeyError on a missing key
HasKey(v, key) == v.isdict /\ \E it \in v.items : it[1] = key

Lookup(v, key) == (CHOOSE it \in v.items : it[1] = key)[2]

\* ------------------------------------------------------------------------
\* Sequence helpers (min, sorted)
\* ------------------------------------------------------------------------
Range(s) == {s[i] : i \in DOMAIN s}

SeqMin(s) == CHOOSE m \in Range(s) : \A x \in Range(s) : m <= x

RemoveAt(s, i) == SubSeq(s, 1, i - 1) \o SubSeq(s, i + 1, Len(s))

\* sorted() without reverse=True
RECURSIVE SortedAsc(_)
SortedAsc(s) ==
    IF s = << >> THEN << >>
    ELSE LET m == SeqMin(s)
             i == CHOOSE j \in DOMAIN s : s[j] = m /\ \A k \in 1..(j - 1) : s[k] # m
         IN  <<m>> \o SortedAsc(RemoveAt(s, i))

\* where sorted(..., reverse=True) puts x into a list already in that order
RECURSIVE InsertDesc(_, _)
InsertDesc(x, s) ==
    IF s = << >> THEN << x >>
    ELSE IF x >= Head(s) THEN << x >> \o s
    ELSE << Head(s) >> \o InsertDesc(x, Tail(s))

RECURSIVE SortedDesc(_)
SortedDesc(s) ==
    IF s = << >> THEN << >>
    ELSE InsertDesc(Head(s), SortedDesc(Tail(s)))

\* ------------------------------------------------------------------------
\* cache_ttl: the decorated get_time called at instant t when the
\* undecorated function would behave as q.  The result is the cache state
\* after the call, whether the call raised, what it returned, and whether
\* the undecorated function ran.
\* ------------------------------------------------------------------------
\* the wrapper stamping last_update only once the function has returned
cache_ttl_stamp_after(t, lu, c, q) ==
    IF t - lu > ttl
    THEN IF q.raises
         THEN [last_update |-> lu, cache |-> c, raises |-> TRUE,
               ret |-> NoneVal, invoked |-> 1]
         ELSE [last_update |-> t, cache |-> q.val, raises |-> FALSE,
               ret |-> q.val, invoked |-> 1]
    ELSE [last_update |-> lu, cache |-> c, raises |-> FALSE,
          ret |-> c, invoked |-> 0]

\* the expiry test with >= for >
CacheExpiredAtTtl(t, lu) == t - lu >= ttl

CacheExpired(t, lu) == t - lu > ttl

cache_ttl(t, lu, c, q) ==
    IF CacheExpired(t, lu)
    THEN IF q.raises
         THEN [last_update |-> t, cache |-> c, raises |-> TRUE,
               ret |-> NoneVal, invoked |-> 1]
         ELSE [last_update |-> t, cache |-> q.val, raises |-> FALSE,
               ret |-> q.val, invoked |-> 1]
    ELSE [last_update |-> lu, cache |-> c, raises |-> FALSE,
          ret |-> c, invoked |-> 0]

\* ------------------------------------------------------------------------
\* CategoryAlert
\* ------------------------------------------------------------------------
\* the property without its filter
thresholds_all(thr, mt) == thr

\* the filter with >= for >
thresholds_not_below(thr, mt) == SelectSeq(thr, LAMBDA t : t >= mt)

thresholds_untriggered(thr, mt) == SelectSeq(thr, LAMBDA t : t > mt)

\* midnight of the UTC day of t: t.replace(hour=0, minute=0, ...)
Midnight(t) == t - (t % DayLen)

\* the "wait until tomorrow" branch with day_end left at today's midnight
time_to_next_day_unrolled(t) ==
    Midnight(t) - t + time_offset

\* the "wait until tomorrow" branch
time_to_next_day(t) ==
    LET day_end == IF Midnight(t) < t THEN Midnight(t) + DayLen ELSE Midnight(t)
    IN  day_end - t + time_offset

\* min(self.thresholds) raises ValueError on an empty list
TimeToNextRaises(thr, mt) ==
    thresholds_untriggered(thr, mt) = << >> /\ thr = << >>

time_to_next_threshold(thr, mt, ts, t) ==
    IF thresholds_untriggered(thr, mt) = << >>
    THEN time_to_next_day(t) + SeqMin(thr)
    ELSE SeqMin(thresholds_untriggered(thr, mt)) - ts

\* the gate of update() measured from now instead of from last_check
UpdateDueFromNow(thr, mt, ts, lc, t) ==
    t > t + time_to_next_threshold(thr, mt, ts, t)

\* the gate of update() with >= for >
UpdateDueAtEqual(thr, mt, ts, lc, t) ==
    t >= lc + time_to_next_threshold(thr, mt, ts, t)

UpdateDue(thr, mt, ts, lc, t) ==
    t > lc + time_to_next_threshold(thr, mt, ts, t)

\* the record left in ev by an operation
Event(op, req, inv, qfail, raised, notes, ret) ==
    [op |-> op, requested |-> req, invoked |-> inv, qfailed |-> qfail,
     raised |-> raised, notes |-> notes, ret |-> ret]

update ==
    IF TimeToNextRaises(thresholds, max_triggered)
    THEN /\ ev' = Event("update", FALSE, 0, FALSE, TRUE, 0, NoneVal)
         /\ UNCHANGED << now, advances, thresholds, max_triggered, time_spent,
                         last_check, cache, last_update, notified >>
    ELSE IF UpdateDue(thresholds, max_triggered, time_spent, last_check, now)
    THEN \E q \in QueryOutcomes :
           LET r == cache_ttl(now, last_update, cache, q)
               ok == ~r.raises /\ HasKey(r.ret, Category)
           IN  /\ cache' = r.cache
               /\ last_update' = r.last_update
               /\ time_spent' = IF ok THEN Lookup(r.ret, Category) ELSE time_spent
               /\ last_check' = IF ok THEN now ELSE last_check
               /\ ev' = Event("update", TRUE, r.invoked, r.raises, FALSE, 0, r.ret)
               /\ UNCHANGED << now, advances, thresholds, max_triggered, notified >>
    ELSE /\ ev' = Event("update", FALSE, 0, FALSE, FALSE, 0, NoneVal)
         /\ UNCHANGED << now, advances, thresholds, max_triggered, time_spent,
                         last_check, cache, last_update, notified >>

\* the loop of check() recording time_spent for the threshold
RECURSIVE CheckLoopTimeSpent(_, _, _)
CheckLoopTimeSpent(todo, ts, announced) ==
    IF todo = << >> THEN announced
    ELSE IF Head(todo) <= ts
         THEN Append(announced, ts)
         ELSE CheckLoopTimeSpent(Tail(todo), ts, announced)

\* the loop of check() without its break
RECURSIVE CheckLoopNoBreak(_, _, _)
CheckLoopNoBreak(todo, ts, announced) ==
    IF todo = << >> THEN announced
    ELSE IF Head(todo) <= ts
         THEN CheckLoopNoBreak(Tail(todo), ts, Append(announced, Head(todo)))
         ELSE CheckLoopNoBreak(Tail(todo), ts, announced)

\* the for loop of check() over the sorted untriggered thresholds: the
\* thresholds it announces, in order (it stops at the first one reached)
RECURSIVE CheckLoop(_, _, _)
CheckLoop(todo, ts, announced) ==
    IF todo = << >> THEN announced
    ELSE IF Head(todo) <= ts
         THEN Append(announced, Head(todo))
         ELSE CheckLoop(Tail(todo), ts, announced)

check ==
    \E sink_ok \in BOOLEAN :
      LET announced ==
            CheckLoop(SortedDesc(thresholds_untriggered(thresholds, max_triggered)),
                      time_spent, << >>)
      IN  /\ max_triggered' = IF announced = << >> THEN max_triggered
                              ELSE announced[Len(announced)]
          /\ notified' = notified \o announced
          /\ ev' = Event("check", FALSE, 0, FALSE,
                         announced # << >> /\ ~sink_ok, Len(announced), NoneVal)
          /\ UNCHANGED << now, advances, thresholds, time_spent, last_check,
                          cache, last_update >>

status ==
    /\ ev' = Event("status", FALSE, 0, FALSE, FALSE, 0, NoneVal)
    /\ UNCHANGED << now, advances, thresholds, max_triggered, time_spent,
                    last_check, cache, last_update, notified >>

\* checkin(): get_time(), the lookups of the top categories (of which the
\* alert's category is one), one notification
checkin ==
    \E q \in QueryOutcomes, sink_ok \in BOOLEAN :
      LET r == cache_ttl(now, last_update, cache, q)
          ok == ~r.raises /\ HasKey(r.ret, Category)
      IN  /\ cache' = r.cache
          /\ last_update' = r.last_update
          /\ ev' = Event("checkin", TRUE, r.invoked, r.raises,
                         ~ok \/ ~sink_ok, IF ok THEN 1 ELSE 0, r.ret)
          /\ UNCHANGED << now, advances, thresholds, max_triggered, time_spent,
                          last_check, notified >>

\* the wall clock moves on between two operations
Advance ==
    /\ advances < MaxAdvance
    /\ \E d \in Deltas : now' = now + d
    /\ advances' = advances + 1
    /\ ev' = Event("advance", FALSE, 0, FALSE, FALSE, 0, NoneVal)
    /\ UNCHANGED << thresholds, max_triggered, time_spent, last_check,
                    cache, last_update, notified >>

\* the two threads that call get_time: the main thread (start, then the loop
\* of threshold_alerts) and checkin_thread
Callers == {"main", "hourly"}

\* a thread that is not inside _cache_ttl
Idle == [pc |-> "idle", t |-> Epoch, began |-> Epoch,
         got |-> [has |-> FALSE, val |-> NoneVal, set |-> FALSE,
                  born |-> Epoch, at |-> Epoch]]

Init ==
    /\ now \in StartTimes
    /\ advances = 0
    /\ thresholds \in ThresholdLists
    /\ max_triggered = 0
    /\ time_spent = 0
    /\ last_check = Epoch
    /\ cache = NoneVal
    /\ last_update = Epoch
    /\ notified = << >>
    /\ ev = Event("init", FALSE, 0, FALSE, FALSE, 0, NoneVal)
    /\ pc = "start"
    /\ last_status = << >>
    /\ hpc = "off"
    /\ wake = Epoch
    /\ calls = [c \in Callers |-> Idle]
    /\ hist = [set |-> FALSE, born |-> Epoch, failed |-> FALSE]

\* an operation called on its own, outside the two loops
Call(op) == op /\ UNCHANGED << lvars, rvars >>

Next ==
    \/ Call(update)
    \/ Call(check)
    \/ Call(status)
    \/ Call(checkin)
    \/ Call(Advance)

Spec == Init /\ [][Next]_allvars

(***************************************************************************)
(* The running service: start() sends one summary, starts checkin_thread   *)
(* and enters the loop of threshold_alerts.                                *)
(***************************************************************************)

\* ages (in minutes) of the latest AFK event when checkin_thread asks for it
AfkAges == {5, 10}

\* what aw.get_events returns for the AFK bucket at instant t, or that it raises
AfkOutcomes(t) ==
    {[raises |-> TRUE, events |-> << >>], [raises |-> FALSE, events |-> << >>]}
    \cup {[raises |-> FALSE,
           events |-> << [timestamp |-> t - a - 2, duration |-> 2, status |-> st] >>] :
             a \in AfkAges, st \in {"not-afk", "afk"}}

\* get_active_status with the five-minute limit included in the stale side
get_active_status_stale_at_limit(events, t) ==
    IF events = << >> THEN "None"
    ELSE IF events[1].timestamp + events[1].duration <= t - 5 THEN "None"
    ELSE IF events[1].status = "not-afk" THEN "True" ELSE "False"

\* get_active_status(): None, True or False from the latest AFK event
get_active_status(events, t) ==
    IF events = << >> THEN "None"
    ELSE IF events[1].timestamp + events[1].duration < t - 5 THEN "None"
    ELSE IF events[1].status = "not-afk" THEN "True" ELSE "False"

\* to_hms(): the non-zero parts of a duration, "0s" when there is none
to_hms(d) ==
    LET days    == d \div DayLen
        hours   == (d % DayLen) \div 60
        minutes == d % 60
        s ==    (IF days > 0 THEN << <<days, "d">> >> ELSE << >>)
             \o (IF hours > 0 THEN << <<hours, "h">> >> ELSE << >>)
             \o (IF minutes > 0 THEN << <<minutes, "m">> >> ELSE << >>)
    IN  IF s = << >> THEN << <<0, "s">> >> ELSE s

\* the whole hour after t
next_hour(t) == t - (t % 60) + 60

\* start(): checkin(), then hourly() starts the thread, then the loop begins
Start ==
    /\ pc = "start"
    /\ checkin
    /\ pc' = (IF ev'.raised THEN "crashed" ELSE "update")
    /\ hpc' = (IF ev'.raised THEN "off" ELSE "sleeping")
    /\ wake' = (IF ev'.raised THEN wake ELSE next_hour(now))
    /\ UNCHANGED << last_status, rvars >>

\* alert.update() in the loop of threshold_alerts; an exception ends the loop
LoopUpdate ==
    /\ pc = "update"
    /\ update
    /\ pc' = (IF ev'.raised THEN "crashed" ELSE "check")
    /\ UNCHANGED << last_status, hpc, wake, rvars >>

\* alert.check() in the loop of threshold_alerts; an exception ends the loop
LoopCheck ==
    /\ pc = "check"
    /\ check
    /\ pc' = (IF ev'.raised THEN "crashed" ELSE "status")
    /\ UNCHANGED << last_status, hpc, wake, rvars >>

\* alert.status() and the bookkeeping of last_status
LoopStatus ==
    /\ pc = "status"
    /\ status
    /\ last_status' = << Category, to_hms(time_spent) >>
    /\ pc' = "sleep"
    /\ UNCHANGED << hpc, wake, rvars >>

\* sleep(10) returns and the next pass begins
LoopSleep ==
    /\ pc = "sleep"
    /\ pc' = "update"
    /\ ev' = Event("sleep", FALSE, 0, FALSE, FALSE, 0, NoneVal)
    /\ UNCHANGED << vars_but_ev, last_status, hpc, wake, rvars >>

\* checkin_thread wakes at next_hour and asks for the AFK status
HourlyStatus ==
    /\ pc \notin {"start", "crashed"}
    /\ hpc = "sleeping"
    /\ now >= wake
    /\ \E a \in AfkOutcomes(now) :
         LET active == IF a.raises THEN "raised"
                       ELSE get_active_status(a.events, now)
         IN  /\ hpc' = (IF active = "True" THEN "checkin" ELSE "sleeping")
             /\ wake' = (IF active = "True" THEN wake ELSE next_hour(now))
             /\ ev' = [op |-> "get_active_status", requested |-> FALSE,
                       invoked |-> 0, qfailed |-> FALSE, raised |-> a.raises,
                       notes |-> 0, ret |-> NoneVal,
                       events |-> a.events, active |-> active]
    /\ UNCHANGED << vars_but_ev, pc, last_status, rvars >>

\* checkin_thread calls checkin(); an exception ends the thread
HourlyCheckin ==
    /\ pc \notin {"start", "crashed"}
    /\ hpc = "checkin"
    /\ checkin
    /\ hpc' = (IF ev'.raised THEN "dead" ELSE "sleeping")
    /\ wake' = (IF ev'.raised THEN wake ELSE next_hour(now))
    /\ UNCHANGED << pc, last_status, rvars >>

\* time passes while the service runs
Tick == Advance /\ UNCHANGED << lvars, rvars >>

LoopNext ==
    \/ Start
    \/ LoopUpdate
    \/ LoopCheck
    \/ LoopStatus
    \/ LoopSleep
    \/ HourlyStatus
    \/ HourlyCheckin
    \/ Tick

LoopSpec == Init /\ [][LoopNext]_allvars

(***************************************************************************)
(* get_time() called by both threads with no lock: the statements of       *)
(* _cache_ttl of one thread interleave with those of the other.            *)
(***************************************************************************)

\* what is left alone by a step inside _cache_ttl
race_frame == << advances, thresholds, max_triggered, time_spent, last_check,
                 notified, ev, lvars >>

\* the outcomes of the query that matter to the cache: it raises or returns
RaceOutcomes ==
    {q \in QueryOutcomes : q.raises \/ q.val \in {Dict({}), Dict({<<Category, 20>>})}}

\* line 66: the thread reads the clock.  checkin_thread exists only after the
\* checkin() of start() has returned, that is after a query has completed.
RaceEnter(c) ==
    /\ calls[c].pc = "idle"
    /\ c = "hourly" => hist.set
    /\ calls' = [calls EXCEPT ![c] = [Idle EXCEPT !.pc = "test", !.t = now]]
    /\ UNCHANGED << now, cache, last_update, hist, race_frame >>

\* line 67: the expiry test against the shared last_update
RaceTest(c) ==
    /\ calls[c].pc = "test"
    /\ calls' = [calls EXCEPT ![c].pc =
                   IF CacheExpired(calls[c].t, last_update) THEN "stamp" ELSE "return"]
    /\ UNCHANGED << now, cache, last_update, hist, race_frame >>

\* line 69: last_update is set, then the query is begun (line 70, the call)
RaceStamp(c) ==
    /\ calls[c].pc = "stamp"
    /\ last_update' = calls[c].t
    /\ calls' = [calls EXCEPT ![c] = [@ EXCEPT !.pc = "invoke", !.began = now]]
    /\ UNCHANGED << now, cache, hist, race_frame >>

\* line 70: the query ends; its result is stored, or its exception leaves
\* _cache_ttl
RaceComplete(c) ==
    /\ calls[c].pc = "invoke"
    /\ \E q \in RaceOutcomes :
         IF q.raises
         THEN /\ calls' = [calls EXCEPT ![c] = Idle]
              /\ hist' = [hist EXCEPT !.failed = TRUE]
              /\ UNCHANGED cache
         ELSE /\ cache' = q.val
              /\ hist' = [hist EXCEPT !.set = TRUE, !.born = calls[c].began]
              /\ calls' = [calls EXCEPT ![c].pc = "return"]
    /\ UNCHANGED << now, last_update, race_frame >>

\* line 71: the thread returns what the shared cache holds now
RaceReturn(c) ==
    /\ calls[c].pc = "return"
    /\ calls' = [calls EXCEPT ![c] =
                   [Idle EXCEPT !.got = [has |-> TRUE, val |-> cache,
                                         set |-> hist.set, born |-> hist.born,
                                         at |-> calls[c].t]]]
    /\ UNCHANGED << now, cache, last_update, hist, race_frame >>

RaceNext ==
    \/ \E c \in Callers : RaceEnter(c)
    \/ \E c \in Callers : RaceTest(c)
    \/ \E c \in Callers : RaceStamp(c)
    \/ \E c \in Callers : RaceComplete(c)
    \/ \E c \in Callers : RaceReturn(c)
    \/ Tick

\* the alerts play no part here: one thresholds list is enough
RaceInit == Init /\ thresholds = << td15min, td30min, td1h, td2h, td4h >>

RaceSpec == RaceInit /\ [][RaceNext]_allvars

(***************************************************************************)
(* The service running without end, for liveness.  The query service and   *)
(* the notification sink succeed, time passes while the loop sleeps, and   *)
(* both threads are scheduled fairly.  Nothing the code                    *)
(* does depends on an instant other than through its time of day and its   *)
(* distance to now, so the clock is kept within one day: at midnight every *)
(* instant is moved back by a day.  An instant more than two days old      *)
(* opens the gate of update() (time_to_next_threshold is below two days)   *)
(* and is kept as the epoch; so is a last_update older than the TTL, which *)
(* _cache_ttl only compares with now - ttl.                                *)
(***************************************************************************)

\* minutes the clock moves during one sleep of the loop
LiveDeltas == {15}

\* the last operation met no failure of the query service or of the sink
\* (get_time returns every category)
ServicesSucceed ==
    /\ ~ev.qfailed
    /\ ~ev.raised
    /\ ev.requested => HasKey(ev.ret, Category)

\* an instant s as kept when the clock reads n
Aged(s, n) == IF n - s > 2 * DayLen THEN Epoch ELSE s

\* an instant s after the clock has gone from n back to n - DayLen
Rebased(s, n) == IF Aged(s, n) = Epoch THEN Epoch ELSE s - DayLen

\* last_update as kept when the clock reads n
Stamp(s, n) == IF CacheExpired(n, s) THEN Epoch ELSE s

LiveStart == Start /\ ServicesSucceed'

LiveUpdate == LoopUpdate /\ ServicesSucceed'

LiveCheck == LoopCheck /\ ServicesSucceed'

LiveHourlyCheckin == HourlyCheckin /\ ServicesSucceed'

\* checkin_thread has woken, or is about to: its sleep has ended
HourlyDue == (hpc = "sleeping" /\ now >= wake) \/ hpc = "checkin"

\* sleep(10): time passes and the next pass begins; checkin_thread is not
\* overslept, the clock moves on once it has done what was due
LiveSleep ==
    /\ pc = "sleep"
    /\ ~HourlyDue
    /\ pc' = "update"
    /\ \E d \in LiveDeltas :
         LET n == now + d
         IN  IF n >= (StartDay + 1) * DayLen
             THEN /\ now' = n - DayLen
                  /\ last_check' = Rebased(last_check, n)
                  /\ last_update' = Rebased(Stamp(last_update, n), n)
                  /\ wake' = Rebased(wake, n)
             ELSE /\ now' = n
                  /\ last_check' = Aged(last_check, n)
                  /\ last_update' = Stamp(last_update, n)
                  /\ wake' = Aged(wake, n)
    /\ ev' = Event("sleep", FALSE, 0, FALSE, FALSE, 0, NoneVal)
    /\ UNCHANGED << advances, thresholds, max_triggered, time_spent, cache,
                    notified, last_status, hpc, rvars >>

\* the next statement of the main thread
MainStep ==
    \/ LiveStart
    \/ LiveUpdate
    \/ LiveCheck
    \/ LoopStatus
    \/ LiveSleep

\* the next statement of checkin_thread
HourlyStep ==
    \/ HourlyStatus
    \/ LiveHourlyCheckin

LiveNext == MainStep \/ HourlyStep

LiveInit == Init /\ thresholds = << td15min, td30min, td1h >>

\* both threads keep running: start(), then pass after pass and hour after hour
LiveSpec ==
    /\ LiveInit
    /\ [][LiveNext]_allvars
    /\ WF_allvars(MainStep)
    /\ WF_allvars(HourlyStep)

\* ------------------------------------------------------------------------
\* Properties
\* ------------------------------------------------------------------------
SetMax(S) == CHOOSE m \in S : \A x \in S : m >= x

\* the thresholds of the list above the high-water mark m and reached by s
NewlyReached(thr, m, s) == {t \in Range(thr) : m < t /\ t <= s}

\* the position of the list of line 273, [15m, 30m, 1h, 2h, 4h]
WorkThresholds == <<td15min, td30min, td1h, td2h, td4h>>

\* C1: after check() returns, max_triggered is the largest threshold t of the
\* list with m < t <= s, where m is the high-water mark and s the time_spent
\* at the call; when there is no such threshold max_triggered is still m.
C1_CheckSetsLargestReached ==
    [][ev'.op = "check" =>
          LET reached == NewlyReached(thresholds, max_triggered, time_spent)
          IN  max_triggered' = IF reached = {} THEN max_triggered
                               ELSE SetMax(reached)]_vars

\* check() has passed over a reached lower threshold and set the mark to 30m
C1_Witness ==
    /\ ev.op = "check"
    /\ thresholds = WorkThresholds
    /\ time_spent = 45
    /\ max_triggered = td30min
    /\ notified = <<td30min>>

\* C2: one invocation of check() hands at most one notification to notify():
\* exactly one, for the highest newly reached threshold, when some
\* untriggered threshold is <= time_spent, and none otherwise.
C2_CheckNotifiesAtMostOnce ==
    [][ev'.op = "check" =>
          LET reached == NewlyReached(thresholds, max_triggered, time_spent)
          IN  /\ ev'.notes <= 1
              /\ Len(notified') <= Len(notified) + 1
              /\ notified' = IF reached = {} THEN notified
                             ELSE Append(notified, SetMax(reached))
              /\ ev'.notes = IF reached = {} THEN 0 ELSE 1]_vars

\* thresholds {15m, 30m, 1h}, time_spent from 0 to 45m: one notification, 30m
C2_Witness ==
    /\ ev.op = "check"
    /\ ev.notes = 1
    /\ thresholds = <<td15min, td30min, td1h>>
    /\ time_spent = 45
    /\ notified = <<td30min>>

StrictlyIncreasing(s) == \A i, j \in DOMAIN s : i < j => s[i] < s[j]

\* C3: the thresholds announced by check() over any sequence of operations
\* form a strictly increasing sequence (no value twice, duplicates of the
\* list included, and never a lower one after a higher one); with the list
\* [15m, 30m, 1h, 2h, 4h] the checks at time_spent 5m, 20m, 35m announce
\* nothing, 15m, 30m.
C3_AnnouncementsStrictlyIncrease ==
    /\ [](StrictlyIncreasing(notified))
    /\ [][(ev'.op = "check" /\ thresholds = WorkThresholds) =>
             /\ (time_spent = 5 /\ notified = << >>) => notified' = << >>
             /\ (time_spent = 20 /\ notified = << >>) => notified' = <<td15min>>
             /\ (time_spent = 35 /\ notified = <<td15min>>)
                   => notified' = <<td15min, td30min>>]_vars

\* the end of the scenario: 15m, then 30m announced at time_spent 35m
C3_Witness ==
    /\ ev.op = "check"
    /\ ev.notes = 1
    /\ thresholds = WorkThresholds
    /\ time_spent = 35
    /\ notified = <<td15min, td30min>>

\* a list with a duplicate entry whose value has been announced, once
C3_WitnessDuplicates ==
    /\ thresholds = <<td30min, td15min, td15min>>
    /\ notified = <<td15min, td30min>>

\* C4: update() asks get_time for time_spent exactly when the time since
\* last_check strictly exceeds time_to_next_threshold as evaluated at that
\* call; otherwise it issues no request and leaves time_spent, last_check,
\* max_triggered and the cache as they were.  (On an empty list
\* time_to_next_threshold has no value: no request, nothing changes.)
C4_UpdateRequestsIffDue ==
    [][ev'.op = "update" =>
          LET due == /\ ~TimeToNextRaises(thresholds, max_triggered)
                     /\ now - last_check >
                          time_to_next_threshold(thresholds, max_triggered,
                                                 time_spent, now)
          IN  /\ ev'.requested <=> due
              /\ ~ev'.requested =>
                    /\ ev'.invoked = 0
                    /\ time_spent' = time_spent
                    /\ last_check' = last_check
                    /\ max_triggered' = max_triggered
                    /\ cache' = cache
                    /\ last_update' = last_update]_vars

\* update() was called when the time since last_check equalled
\* time_to_next_threshold, and did not ask
C4_Witness ==
    /\ ev.op = "update"
    /\ ~ev.requested
    /\ ~ev.raised
    /\ last_check # Epoch
    /\ now - last_check =
         time_to_next_threshold(thresholds, max_triggered, time_spent, now)

\* update() asked again, a positive time_to_next_threshold having passed
C4_WitnessRequested ==
    /\ ev.op = "update"
    /\ ev.requested
    /\ ev.invoked = 1
    /\ last_check = now
    /\ time_spent = 20
    /\ max_triggered = 0

\* the query inside update() failed: get_time raised, or returned None or a
\* dict without the category
UpdateFailed(e) == e.qfailed \/ ~HasKey(e.ret, Category)

\* C5: when the query inside update() fails, update() does not raise and
\* leaves time_spent and last_check unchanged; last_check moves only
\* together with a successful assignment of time_spent; and the refresh is
\* attempted again on the next pass, i.e. update() is still due once the
\* clock has moved on.
C5_FailedUpdateIsRetried ==
    /\ [][(ev'.op = "update" /\ ev'.requested /\ UpdateFailed(ev')) =>
             /\ ~ev'.raised
             /\ time_spent' = time_spent
             /\ last_check' = last_check]_vars
    /\ [][last_check' # last_check =>
             /\ ev'.op = "update"
             /\ ~UpdateFailed(ev')
             /\ last_check' = now
             /\ time_spent' = Lookup(ev'.ret, Category)]_vars
    /\ [][(ev.op = "update" /\ ev.requested /\ UpdateFailed(ev)
             /\ ev'.op = "advance") =>
             UpdateDue(thresholds', max_triggered', time_spent', last_check',
                       now')]_vars

\* C6: when the function wrapped by the TTL cache raises, the raise reaches
\* the caller and the cache is unmodified: the cached value and the
\* last-refresh timestamp keep their previous values.
C6_FailureLeavesCacheUnmodified ==
    [][ev'.qfailed =>
          /\ ev'.op = "checkin" => ev'.raised
          /\ cache' = cache
          /\ last_update' = last_update]_vars

\* C7: a call of get_time whose wrapped function does not fail returns the
\* stored value without running the function when now - last_update <= ttl,
\* and otherwise runs it exactly once, stores its result and the instant of
\* the call, and returns the new value.
C7_CacheWithinAndAfterTtl ==
    [][(ev'.requested /\ ~ev'.qfailed) =>
          IF now - last_update <= ttl
          THEN /\ ev'.invoked = 0
               /\ ev'.ret = cache
               /\ cache' = cache
               /\ last_update' = last_update
          ELSE /\ ev'.invoked = 1
               /\ ev'.ret \in QueryDicts
               /\ cache' = ev'.ret
               /\ last_update' = now]_vars

\* a call exactly one ttl after the refresh was served from the cache
C7_Witness ==
    /\ ev.op = "checkin"
    /\ ev.requested
    /\ ev.invoked = 0
    /\ now - last_update = ttl
    /\ cache \in QueryDicts
    /\ ev.ret = cache

\* a call after the ttl ran the function and stored its result
C7_WitnessExpired ==
    /\ ev.op = "checkin"
    /\ ev.invoked = 1
    /\ ~ev.qfailed
    /\ advances > 0
    /\ last_update = now
    /\ ev.ret = cache

SetMin(S) == CHOOSE m \in S : \A x \in S : m <= x

\* the first start of a 4-hour-shifted day (04:00 UTC) after the instant t
NextDayStart(t) ==
    LET d == Midnight(t) + time_offset
    IN  IF d > t THEN d ELSE d + DayLen

\* C8: time_to_next_threshold is min(untriggered) - time_spent when some
\* threshold exceeds max_triggered, and otherwise, at every time of day, the
\* time until the next 04:00 UTC after now plus min(thresholds).
C8_TimeToNextThreshold ==
    ~TimeToNextRaises(thresholds, max_triggered) =>
        time_to_next_threshold(thresholds, max_triggered, time_spent, now) =
            IF \E t \in Range(thresholds) : t > max_triggered
            THEN SetMin({t \in Range(thresholds) : t > max_triggered}) - time_spent
            ELSE (NextDayStart(now) - now) + SetMin(Range(thresholds))

\* C9: once no threshold exceeds max_triggered, update() asks for no refresh
\* before the next day start (04:00 UTC) plus min(thresholds).  The day start
\* is taken after last_check, the earliest instant at which the thresholds
\* can have been exhausted.
C9_NoRefreshBeforeNextDay ==
    [][(/\ ev'.op = "update"
        /\ ev'.requested
        /\ thresholds # << >>
        /\ thresholds_untriggered(thresholds, max_triggered) = << >>) =>
          now > NextDayStart(last_check) + SeqMin(thresholds)]_vars

\* C10: with an empty thresholds list thresholds_untriggered is empty, and
\* update() and check() return without raising and announce nothing.
C10_EmptyThresholdsValid ==
    thresholds = << >> =>
        /\ thresholds_untriggered(thresholds, max_triggered) = << >>
        /\ notified = << >>
        /\ ev.op \in {"update", "check"} => (~ev.raised /\ ev.notes = 0)

\* C11: in every reachable state max_triggered is the zero duration or a
\* member of the thresholds list.
C11_MaxTriggeredIsThresholdOrZero ==
    max_triggered = 0 \/ max_triggered \in Range(thresholds)

\* check() has raised the mark to a threshold below the reported time_spent
C11_Witness ==
    /\ ev.op = "check"
    /\ ev.notes = 1
    /\ max_triggered = td15min
    /\ time_spent = 20
    /\ thresholds = <<td30min, td15min, td15min>>

\* C12: no step of update(), check() or status() lowers max_triggered,
\* whatever the query reports, a time_spent lower than before included.
C12_MaxTriggeredNeverDecreases ==
    [][max_triggered' >= max_triggered]_vars

\* check() ran on a time_spent reported below the mark
C12_Witness ==
    /\ ev.op = "check"
    /\ ev.notes = 0
    /\ max_triggered = td30min
    /\ time_spent = 5

\* the day of the 4-hour-shifted calendar (04:00 UTC to 04:00 UTC) of t
ShiftedDay(t) == (t - time_offset) \div DayLen

\* max_triggered after a check() called in a state with these fields
MarkAfterCheck(thr, mt, ts) ==
    LET announced == CheckLoop(SortedDesc(thresholds_untriggered(thr, mt)), ts, << >>)
    IN  IF announced = << >> THEN mt ELSE announced[Len(announced)]

\* C13: at day rollover the alert restarts with the upstream data: when the
\* first refresh of a new shifted day reports a time_spent below every
\* threshold, max_triggered is back at zero once update() and the check()
\* that follows it have run.
C13_MarkRestartsAtRollover ==
    [][(/\ ev'.op = "update"
        /\ ev'.requested
        /\ ~UpdateFailed(ev')
        /\ last_check # Epoch
        /\ ShiftedDay(now) > ShiftedDay(last_check)
        /\ time_spent' < SeqMin(thresholds)) =>
          MarkAfterCheck(thresholds', max_triggered', time_spent') = 0]_vars

\* C17: two calls of update() with no clock advance (and nothing else)
\* between them run the undecorated get_time at most once in total.
C17_UpdateTwiceQueriesOnce ==
    [][(ev.op = "update" /\ ev'.op = "update") =>
          ev.invoked + ev'.invoked <= 1]_vars

\* the second of two successive update() calls: the first ran the query,
\* which failed, and the second asked get_time again and was served the
\* cache
C17_Witness ==
    /\ ev.op = "update"
    /\ ev.requested
    /\ ev.invoked = 0
    /\ last_update = now
    /\ last_check # now
    /\ cache = NoneVal


\* C14: a failure of the notification sink while check() announces a
\* threshold does not leave the loop of threshold_alerts: the pass goes on
\* with status() and the loop is never ended by it.
C14_SinkFailureStaysInLoop ==
    [][(pc = "check" /\ ev'.op = "check" /\ ev'.raised) => pc' = "status"]_allvars

\* C15: when get_time raises or returns no usable mapping inside the
\* checkin() of checkin_thread, the thread skips that hour's summary and
\* sleeps until the next whole hour.
C15_HourlyQueryFailureIsCaught ==
    [][(hpc = "checkin" /\ ev'.op = "checkin" /\ UpdateFailed(ev')) =>
          (hpc' = "sleeping" /\ wake' = next_hour(now))]_allvars

\* C16: checkin_thread sends a summary only after get_active_status returned
\* True; the status is None exactly when there is no AFK event or the latest
\* event ended more than five minutes before now; for None, False or a failed
\* status query nothing is sent and the thread sleeps until the next hour.
C16_HourlySummaryOnlyWhenActive ==
    [][/\ (ev'.op = "get_active_status" /\ ~ev'.raised) =>
            ev'.active =
              IF ev'.events = << >> THEN "None"
              ELSE IF now - (ev'.events[1].timestamp + ev'.events[1].duration) > 5
                   THEN "None"
                   ELSE IF ev'.events[1].status = "not-afk" THEN "True" ELSE "False"
       /\ (ev'.op = "get_active_status" /\ ev'.active = "True") =>
            (hpc' = "checkin" /\ cache' = cache /\ notified' = notified)
       /\ (ev'.op = "get_active_status" /\ ev'.active # "True") =>
            (hpc' = "sleeping" /\ wake' = next_hour(now) /\ cache' = cache)
       /\ (ev'.op = "checkin" /\ pc # "start") =>
            hpc = "checkin"
       /\ (hpc' = "checkin" /\ hpc # "checkin") =>
            (ev'.op = "get_active_status" /\ ev'.active = "True")]_allvars

\* the latest AFK event ended ten minutes ago: the status is None and the
\* hour is skipped
C16_Witness ==
    /\ ev.op = "get_active_status"
    /\ ev.events # << >>
    /\ now - (ev.events[1].timestamp + ev.events[1].duration) = 10
    /\ ev.active = "None"
    /\ hpc = "sleeping"
    /\ wake = next_hour(now)

\* an event that ended exactly five minutes ago is still used
C16_WitnessAtLimit ==
    /\ ev.op = "get_active_status"
    /\ ev.events # << >>
    /\ now - (ev.events[1].timestamp + ev.events[1].duration) = 5
    /\ ev.active = "True"
    /\ hpc = "checkin"

\* C20: outside the interval between update() and check(), an alert with a
\* non-empty thresholds list has a non-negative time_to_next_threshold: no
\* untriggered threshold is <= time_spent, the untriggered branch is
\* strictly positive and the next-day branch is non-negative.
C20_NonNegativeAtPassBoundary ==
    (pc # "check" /\ thresholds # << >>) =>
      LET u == thresholds_untriggered(thresholds, max_triggered)
          t == time_to_next_threshold(thresholds, max_triggered, time_spent, now)
      IN  /\ t >= 0
          /\ \A i \in 1..Len(u) : u[i] > time_spent
          /\ u # << >> => t > 0

\* after a check() that announced 15 minutes with 20 minutes spent, the
\* value is positive again
C20_Witness ==
    /\ pc = "status"
    /\ ev.op = "check"
    /\ ev.notes = 1
    /\ time_spent = 20
    /\ max_triggered = td15min
    /\ time_to_next_threshold(thresholds, max_triggered, time_spent, now) = 10

\* between update() and check() the value is negative
C20_WitnessNegative ==
    /\ pc = "check"
    /\ thresholds # << >>
    /\ time_to_next_threshold(thresholds, max_triggered, time_spent, now) < 0

\* a pass boundary in the next-day branch
C20_WitnessNextDay ==
    /\ pc = "sleep"
    /\ thresholds # << >>
    /\ thresholds_untriggered(thresholds, max_triggered) = << >>


\* C18: with both threads inside get_time at once, every value a thread
\* receives comes from a query that completed and that began at most one TTL
\* before that thread's call: never None, never an older value.
C18_ReceivedValueIsFresh ==
    \A c \in Callers :
      calls[c].got.has =>
        /\ calls[c].got.val # NoneVal
        /\ calls[c].got.set
        /\ calls[c].got.at - calls[c].got.born <= ttl

\* the same with no query having failed: the stale value is due to the
\* interleaving alone
C18_FreshWhenNoQueryFailed ==
    hist.failed \/ C18_ReceivedValueIsFresh


\* the last operation did not run a query that reported less than t
ReportsAtLeast(t) ==
    ev.invoked = 1 => (HasKey(ev.ret, Category) /\ Lookup(ev.ret, Category) >= t)

\* a threshold >= t was announced and max_triggered is >= t
Announced(t) ==
    /\ max_triggered >= t
    /\ \E i \in 1..Len(notified) : notified[i] >= t

\* C19: for every threshold t of the alert, if from some point on every
\* query reports a duration >= t (the services succeeding and the loop
\* running being part of the specification), then a threshold >= t is
\* announced and max_triggered is >= t: it is never the case that the
\* reports stay >= t for ever with nothing announced.
C19_ReachedThresholdIsAnnounced ==
    \A t \in {td15min, td30min, td1h} :
      []<>(~ReportsAtLeast(t) \/ Announced(t))

\* fifteen, then thirty minutes were announced
C19_Witness ==
    /\ Announced(td30min)
    /\ ev.op = "check"
    /\ ev.notes = 1
    /\ max_triggered = td30min
    /\ notified = << td15min, td30min >>


\* the gate of update() kept a pass from refreshing although an earlier pass
\* had refreshed
C19_WitnessGateClosed ==
    /\ pc = "check"
    /\ ev.op = "update"
    /\ ~ev.requested
    /\ last_check # Epoch
    /\ max_triggered = td15min
    /\ ~Announced(td30min)

=============================================================================
